---- MODULE Spec2Model ----
(***************************************************************************)
(* Model of simple_database (src/main.py): the CSV row codec CsvProcessor   *)
(* and the Database table with its condition language.                     *)
(*                                                                         *)
(* Text is a sequence of one-character strings.  A Python value is a       *)
(* record [t, s, n]: a str (t = "str", s its characters) or an int         *)
(* (t = "int", n its value).  A table row (a Python dict) is a function    *)
(* from column names (texts) to Python values.  A call that raises is      *)
(* modelled by a result [tag |-> "raise", exc |-> <exception name>].       *)
(***************************************************************************)
EXTENDS Integers, Sequences, FiniteSets, TLC

VARIABLES cols, db, file, nops, last, inp, out

vars == <<cols, db, file, nops, last, inp, out>>

(***************************************************************************)
(* Python values and text helpers                                          *)
(***************************************************************************)
PyStr(s) == [t |-> "str", s |-> s, n |-> 0]

PyInt(n) == [t |-> "int", s |-> <<>>, n |-> n]

Raise(e) == [tag |-> "raise", exc |-> e]

Ok(v) == [tag |-> "ok", val |-> v]

IsRaise(r) == r.tag = "raise"

Digit(d) == <<"0", "1", "2", "3", "4", "5", "6", "7", "8", "9">>[d + 1]

RECURSIVE Decimal(_)
Decimal(n) == IF n < 10 THEN <<Digit(n)>> ELSE Decimal(n \div 10) \o <<Digit(n % 10)>>

\* str(value): a str is returned as it is, an int is written in decimal.
str(v) ==
  IF v.t = "str" THEN v.s
  ELSE IF v.n < 0 THEN <<"-">> \o Decimal(-v.n) ELSE Decimal(v.n)

\* The code point of a character, for Python's ordering of str.
ord(c) ==
  CASE c = " " -> 32 [] c = "!" -> 33 [] c = "\"" -> 34 [] c = "#" -> 35
    [] c = "*" -> 42 [] c = "-" -> 45
    [] c = "0" -> 48 [] c = "1" -> 49 [] c = "2" -> 50 [] c = "3" -> 51
    [] c = "4" -> 52 [] c = "5" -> 53 [] c = "6" -> 54 [] c = "7" -> 55
    [] c = "8" -> 56 [] c = "9" -> 57
    [] c = ";" -> 59 [] c = "<" -> 60 [] c = "=" -> 61 [] c = ">" -> 62
    [] c = "D" -> 68 [] c = "E" -> 69 [] c = "S" -> 83
    [] c = "a" -> 97 [] c = "b" -> 98 [] c = "c" -> 99 [] c = "d" -> 100
    [] c = "e" -> 101 [] c = "g" -> 103 [] c = "i" -> 105 [] c = "l" -> 108
    [] c = "m" -> 109 [] c = "n" -> 110 [] c = "o" -> 111 [] c = "r" -> 114
    [] c = "v" -> 118 [] c = "x" -> 120 [] c = "y" -> 121
    [] c = "\n" -> 10

\* a <= b for two str: lexicographic by code point, a prefix being smaller.
RECURSIVE StrLe(_, _)
StrLe(a, b) ==
  IF a = <<>> THEN TRUE
  ELSE IF b = <<>> THEN FALSE
  ELSE IF Head(a) = Head(b) THEN StrLe(Tail(a), Tail(b))
  ELSE ord(Head(a)) < ord(Head(b))

\* s[i:] and s[i:j] with 1-based i and exclusive 1-based j.
From(s, i) == SubSeq(s, i, Len(s))

Slice(s, i, j) == SubSeq(s, i, j - 1)

StartsWith(s, p) == Len(s) >= Len(p) /\ SubSeq(s, 1, Len(p)) = p

\* s.split(sep) for a non-empty sep: the pieces between the non-overlapping
\* occurrences of sep found from the left; always at least one piece.
RECURSIVE SplitFrom(_, _, _, _)
SplitFrom(s, sep, i, start) ==
  IF i + Len(sep) - 1 > Len(s) THEN <<From(s, start)>>
  ELSE IF SubSeq(s, i, i + Len(sep) - 1) = sep
       THEN <<Slice(s, start, i)>> \o SplitFrom(s, sep, i + Len(sep), i + Len(sep))
       ELSE SplitFrom(s, sep, i + 1, start)

split(s, sep) == SplitFrom(s, sep, 1, 1)

\* sep.join(parts)
RECURSIVE join(_, _)
join(sep, parts) ==
  IF parts = <<>> THEN <<>>
  ELSE IF Len(parts) = 1 THEN parts[1]
  ELSE parts[1] \o sep \o join(sep, Tail(parts))

\* s.replace(c, '') for a single character c.
RECURSIVE RemoveChar(_, _)
RemoveChar(s, c) ==
  IF s = <<>> THEN <<>>
  ELSE IF Head(s) = c THEN RemoveChar(Tail(s), c)
  ELSE <<Head(s)>> \o RemoveChar(Tail(s), c)

EmptyRow == [k \in {} |-> PyStr(<<>>)]

\* row[key] = value on a dict.
SetItem(row, key, value) ==
  [k \in DOMAIN row \cup {key} |-> IF k = key THEN value ELSE row[k]]

(***************************************************************************)
(* CsvProcessor                                                            *)
(***************************************************************************)
\* One line of decode: field i becomes the value of cols[i]; an index past
\* the schema raises IndexError.
RECURSIVE DecodeFields(_, _, _, _)
DecodeFields(schema, spl_line, i, db_line) ==
  IF i > Len(spl_line) THEN Ok(db_line)
  ELSE IF i > Len(schema) THEN Raise("IndexError")
  ELSE DecodeFields(schema, spl_line, i + 1, SetItem(db_line, schema[i], PyStr(spl_line[i])))

RECURSIVE DecodeLines(_, _, _)
DecodeLines(schema, lines, acc) ==
  IF lines = <<>> THEN Ok(acc)
  ELSE IF StartsWith(Head(lines), <<"#">>) THEN DecodeLines(schema, Tail(lines), acc)
  ELSE LET r == DecodeFields(schema, split(Head(lines), <<";">>), 1, EmptyRow)
       IN  IF IsRaise(r) THEN r
           ELSE DecodeLines(schema, Tail(lines), Append(acc, r.val))

\* decode with `range(min(len(spl_line), len(self.cols)))`: the fields past
\* the schema are dropped.
RECURSIVE DecodeLinesTruncating(_, _, _)
DecodeLinesTruncating(schema, lines, acc) ==
  IF lines = <<>> THEN Ok(acc)
  ELSE IF StartsWith(Head(lines), <<"#">>) THEN DecodeLinesTruncating(schema, Tail(lines), acc)
  ELSE LET spl_line == split(Head(lines), <<";">>)
           kept     == SubSeq(spl_line, 1, IF Len(spl_line) < Len(schema)
                                           THEN Len(spl_line) ELSE Len(schema))
       IN  DecodeLinesTruncating(schema, Tail(lines),
                                 Append(acc, DecodeFields(schema, kept, 1, EmptyRow).val))

decode_truncating(schema, input_data) ==
  DecodeLinesTruncating(schema, split(input_data, <<"\n">>), <<>>)

\* CsvProcessor.decode
decode(schema, input_data) == DecodeLines(schema, split(input_data, <<"\n">>), <<>>)

\* One line of encode: ";" + value for each schema column, "" for an absent
\* one; concatenating a value that is no str raises TypeError.
RECURSIVE EncodeLine(_, _, _, _)
EncodeLine(schema, line, i, csv_line) ==
  IF i > Len(schema) THEN Ok(From(csv_line, 2) \o <<"\n">>)
  ELSE IF schema[i] \in DOMAIN line
       THEN IF line[schema[i]].t = "str"
            THEN EncodeLine(schema, line, i + 1, csv_line \o <<";">> \o line[schema[i]].s)
            ELSE Raise("TypeError")
       ELSE EncodeLine(schema, line, i + 1, csv_line \o <<";">>)

RECURSIVE EncodeLines(_, _, _)
EncodeLines(schema, input_data, csv_result) ==
  IF input_data = <<>> THEN Ok(csv_result)
  ELSE LET r == EncodeLine(schema, Head(input_data), 1, <<>>)
       IN  IF IsRaise(r) THEN r
           ELSE EncodeLines(schema, Tail(input_data), csv_result \o r.val)

\* encode returning csv_result instead of csv_result[:-1]: the last line
\* break stays.
encode_keeping_line_break(schema, input_data, append_cols_comm) ==
  EncodeLines(schema, input_data,
              IF append_cols_comm
              THEN <<"#">> \o join(<<";">>, schema) \o <<"\n">>
              ELSE <<>>)

\* CsvProcessor.encode
encode(schema, input_data, append_cols_comm) ==
  LET r == EncodeLines(schema, input_data,
                       IF append_cols_comm
                       THEN <<"#">> \o join(<<";">>, schema) \o <<"\n">>
                       ELSE <<>>)
  IN  IF IsRaise(r) THEN r ELSE Ok(SubSeq(r.val, 1, Len(r.val) - 1))

(***************************************************************************)
(* Database._retrieve_rows_by_condition: the condition language            *)
(***************************************************************************)
\* The number of double quotes in s[i:].
RECURSIVE QuotesFrom(_, _)
QuotesFrom(s, i) ==
  IF i > Len(s) THEN 0
  ELSE (IF s[i] = "\"" THEN 1 ELSE 0) + QuotesFrom(s, i + 1)

\* The lookahead (?=([^"]*"[^"]*")*(?![^"]*")) at position i: the rest of the
\* text is some pairs of quotes followed by text without a quote, that is, it
\* holds an even number of quotes.
OutsideQuotes(s, i) == QuotesFrom(s, i) % 2 = 0

\* re.findall('(and|or)(?=...)', conditions), first group of each match:
\* non-overlapping matches, leftmost first, anywhere in the text.
RECURSIVE LogicalOperatorsFrom(_, _)
LogicalOperatorsFrom(s, i) ==
  IF i > Len(s) THEN <<>>
  ELSE IF i + 2 <= Len(s) /\ SubSeq(s, i, i + 2) = <<"a", "n", "d">> /\ OutsideQuotes(s, i + 3)
       THEN <<"and">> \o LogicalOperatorsFrom(s, i + 3)
  ELSE IF i + 1 <= Len(s) /\ SubSeq(s, i, i + 1) = <<"o", "r">> /\ OutsideQuotes(s, i + 2)
       THEN <<"or">> \o LogicalOperatorsFrom(s, i + 2)
  ELSE LogicalOperatorsFrom(s, i + 1)

glob_logical_operators(conditions) == LogicalOperatorsFrom(conditions, 1)

\* The first index j >= i with s[j] in stop, or Len(s) + 1.
RECURSIVE RunEnd(_, _, _)
RunEnd(s, i, stop) ==
  IF i > Len(s) \/ s[i] \in stop THEN i ELSE RunEnd(s, i + 1, stop)

\* re.findall('[^ =]+[=][^ ]+', conditions): at each position the longest run
\* without space and '=', then '=', then the longest run without space.
RECURSIVE ConditionsFrom(_, _)
ConditionsFrom(s, i) ==
  IF i > Len(s) THEN <<>>
  ELSE LET j == RunEnd(s, i, {" ", "="})
           k == RunEnd(s, j + 1, {" "})
       IN  IF j > i /\ j <= Len(s) /\ s[j] = "=" /\ k > j + 1
           THEN <<Slice(s, i, k)>> \o ConditionsFrom(s, k)
           ELSE ConditionsFrom(s, i + 1)

split_conditions(conditions) == ConditionsFrom(conditions, 1)

\* The alternatives of '(!=|<=|>=|=|<|>)' in the order the pattern tries them.
OperatorAlternatives ==
  << <<"!", "=">>, <<"<", "=">>, <<">", "=">>, <<"=">>, <<"<">>, <<">">> >>

RECURSIVE AlternativeAt(_, _, _)
AlternativeAt(s, i, a) ==
  IF a > Len(OperatorAlternatives) THEN <<>>
  ELSE IF StartsWith(From(s, i), OperatorAlternatives[a]) THEN OperatorAlternatives[a]
  ELSE AlternativeAt(s, i, a + 1)

\* re.findall('(!=|<=|>=|=|<|>)', condition)[0]: the leftmost match, <<>> when
\* there is none (the IndexError the code catches).
RECURSIVE FindOperatorFrom(_, _)
FindOperatorFrom(s, i) ==
  IF i > Len(s) THEN <<>>
  ELSE IF AlternativeAt(s, i, 1) # <<>> THEN AlternativeAt(s, i, 1)
  ELSE FindOperatorFrom(s, i + 1)

find_operator(condition) == FindOperatorFrom(condition, 1)

\* The loop that compiles the comparisons: [col_name, operator, value] each.
\* No operator: the function returns False.  A split into other than two
\* pieces: the unpacking raises ValueError.
RECURSIVE CompileFrom(_, _)
CompileFrom(conditions, comp_conditions) ==
  IF conditions = <<>> THEN Ok(comp_conditions)
  ELSE LET condition == Head(conditions)
           operator  == find_operator(condition)
           parts     == split(condition, operator)
       IN  IF operator = <<>> THEN [tag |-> "false"]
           ELSE IF Len(parts) # 2 THEN Raise("ValueError")
           ELSE CompileFrom(Tail(conditions),
                            Append(comp_conditions,
                                   <<parts[1], operator, RemoveChar(parts[2], "\"")>>))

compile_conditions(conditions) == CompileFrom(split_conditions(conditions), <<>>)

\* One comparison on one row.  row[condition[0]] raises KeyError for an absent
\* column (not caught); ordering a value that is no str against the literal
\* raises TypeError, which is caught and leaves res False.
compare(row, condition) ==
  LET col_name == condition[1]
      operator == condition[2]
      value    == condition[3]
  IN  IF col_name \notin DOMAIN row THEN Raise("KeyError")
      ELSE LET v == row[col_name]
           IN  CASE operator = <<">", "=">> -> Ok(v.t = "str" /\ StrLe(value, v.s))
                 [] operator = <<"<", "=">> -> Ok(v.t = "str" /\ StrLe(v.s, value))
                 [] operator = <<"!", "=">> -> Ok(v # PyStr(value))
                 [] operator = <<"<">>      -> Ok(v.t = "str" /\ StrLe(v.s, value))
                 [] operator = <<">">>      -> Ok(v.t = "str" /\ StrLe(value, v.s))
                 [] operator = <<"=">>      -> Ok(v = PyStr(value))

RECURSIVE LogicalValuesFrom(_, _, _)
LogicalValuesFrom(row, comp_conditions, logical_values) ==
  IF comp_conditions = <<>> THEN Ok(logical_values)
  ELSE LET r == compare(row, Head(comp_conditions))
       IN  IF IsRaise(r) THEN r
           ELSE LogicalValuesFrom(row, Tail(comp_conditions), Append(logical_values, r.val))

\* del seq[i] with a 1-based i.
Del(seq, i) == SubSeq(seq, 1, i - 1) \o SubSeq(seq, i + 1, Len(seq))

\* The first loop without its `i -= 1`: after a fold the scan moves on and
\* skips the operator that took the folded one's place.
RECURSIVE and_reduction_no_rescan(_, _, _)
and_reduction_no_rescan(logical_values, logical_operators, i) ==
  IF i > Len(logical_operators) THEN Ok(<<logical_values, logical_operators>>)
  ELSE IF logical_operators[i] = "and"
       THEN IF i + 1 > Len(logical_values) THEN Raise("IndexError")
            ELSE and_reduction_no_rescan(
                   Del([logical_values EXCEPT ![i] = logical_values[i] /\ logical_values[i + 1]],
                       i + 1),
                   Del(logical_operators, i), i + 1)
       ELSE and_reduction_no_rescan(logical_values, logical_operators, i + 1)

\* First loop: every 'and' folds its two neighbours; i is 1-based here.  Any
\* access past the end of logical_values raises IndexError.
RECURSIVE and_reduction(_, _, _)
and_reduction(logical_values, logical_operators, i) ==
  IF i > Len(logical_operators) THEN Ok(<<logical_values, logical_operators>>)
  ELSE IF logical_operators[i] = "and"
       THEN IF i + 1 > Len(logical_values) THEN Raise("IndexError")
            ELSE and_reduction(
                   Del([logical_values EXCEPT ![i] = logical_values[i] /\ logical_values[i + 1]],
                       i + 1),
                   Del(logical_operators, i), i)
       ELSE and_reduction(logical_values, logical_operators, i + 1)

\* Second loop: the remaining operators fold the first two values with or.
RECURSIVE or_reduction(_, _)
or_reduction(logical_values, logical_operators) ==
  IF Len(logical_operators) = 0 THEN Ok(logical_values)
  ELSE IF Len(logical_values) < 2 THEN Raise("IndexError")
  ELSE or_reduction(
         Del([logical_values EXCEPT ![1] = logical_values[1] \/ logical_values[2]], 2),
         Del(logical_operators, 1))

\* Both loops and the final logical_values[0].
reduce(logical_values, logical_operators) ==
  LET a == and_reduction(logical_values, logical_operators, 1)
  IN  IF IsRaise(a) THEN a
      ELSE LET o == or_reduction(a.val[1], a.val[2])
           IN  IF IsRaise(o) THEN o
               ELSE IF o.val = <<>> THEN Raise("IndexError")
               ELSE Ok(o.val[1])

\* The body of the loop over the rows, for one row.
row_matches(row, comp_conditions, logical_operators) ==
  LET lv == LogicalValuesFrom(row, comp_conditions, <<>>)
  IN  IF IsRaise(lv) THEN lv ELSE reduce(lv.val, logical_operators)

RECURSIVE FinalRowsFrom(_, _, _, _, _)
FinalRowsFrom(table, comp_conditions, logical_operators, x, final_rows) ==
  IF x > Len(table) THEN Ok(final_rows)
  ELSE LET r == row_matches(table[x], comp_conditions, logical_operators)
       IN  IF IsRaise(r) THEN r
           ELSE FinalRowsFrom(table, comp_conditions, logical_operators, x + 1,
                              IF r.val THEN Append(final_rows, x) ELSE final_rows)

Star == <<"*">>

\* Database._retrieve_rows_by_condition: Ok(the 1-based positions of the
\* matching rows, ascending), a raised exception, or the returned False.
retrieve_rows_by_condition(table, conditions) ==
  IF conditions = Star THEN Ok([x \in 1..Len(table) |-> x])
  ELSE LET c == compile_conditions(conditions)
       IN  IF c.tag # "ok" THEN c
           ELSE FinalRowsFrom(table, c.val, glob_logical_operators(conditions), 1, <<>>)

(***************************************************************************)
(* Database                                                                *)
(***************************************************************************)
\* The defaults of Database.__init__.
auto_save == FALSE

read_before_operations == FALSE

ID == <<"i", "d">>

NAME == <<"n", "a", "m", "e">>

AGE == <<"a", "g", "e">>

\* Database.read: the table decoded from the file; a decode error leaves the
\* table as it was and reaches the caller.
read_effect(schema, table, text) ==
  LET r == decode(schema, text)
  IN  IF IsRaise(r) THEN [db |-> table, res |-> r] ELSE [db |-> r.val, res |-> Ok(TRUE)]

\* Database.save: open(path, 'w') empties the file, then the encoded table is
\* written; an encode error leaves the file empty.  write() returns the
\* number of characters, so the result is False for an empty text.
save_effect(schema, table, text) ==
  LET r == encode(schema, table, TRUE)
  IN  IF IsRaise(r) THEN [file |-> <<>>, res |-> r]
      ELSE [file |-> r.val, res |-> Ok(Len(r.val) > 0)]

\* The loop of Database.update_row: line['id'] raises KeyError on a row
\* without that column; the first row whose id equals row_id is written and
\* the call returns True; False when the loop ends.
RECURSIVE UpdateRowFrom(_, _, _, _, _)
UpdateRowFrom(table, row_id, col, data, x) ==
  IF x > Len(table) THEN [db |-> table, res |-> Ok(FALSE), found |-> FALSE]
  ELSE IF ID \notin DOMAIN table[x]
       THEN [db |-> table, res |-> Raise("KeyError"), found |-> FALSE]
  ELSE IF table[x][ID] = row_id
       THEN [db |-> [table EXCEPT ![x] = SetItem(table[x], col, data)],
             res |-> Ok(TRUE), found |-> TRUE]
  ELSE UpdateRowFrom(table, row_id, col, data, x + 1)

update_row_effect(table, row_id, col, data) == UpdateRowFrom(table, row_id, col, data, 1)

\* update_rows storing value instead of str(value), as update_row does.
RECURSIVE WriteMatchesUnconverted(_, _, _, _)
WriteMatchesUnconverted(table, matches, col_name, value) ==
  IF matches = <<>> THEN table
  ELSE WriteMatchesUnconverted([table EXCEPT ![Head(matches)] = SetItem(@, col_name, value)],
                               Tail(matches), col_name, value)

\* The loop of Database.update_rows over the matches found beforehand.
RECURSIVE WriteMatches(_, _, _, _)
WriteMatches(table, matches, col_name, value) ==
  IF matches = <<>> THEN table
  ELSE WriteMatches([table EXCEPT ![Head(matches)] = SetItem(@, col_name, PyStr(str(value)))],
                    Tail(matches), col_name, value)

\* Iterating the False that _retrieve_rows_by_condition may return raises
\* TypeError.
update_rows_effect(table, conditions, col_name, value) ==
  LET matches == retrieve_rows_by_condition(table, conditions)
  IN  IF IsRaise(matches) THEN [db |-> table, res |-> matches]
      ELSE IF matches.tag = "false" THEN [db |-> table, res |-> Raise("TypeError")]
      ELSE [db |-> WriteMatches(table, matches.val, col_name, value), res |-> Ok(TRUE)]

retrieve_rows_result(table, conditions) ==
  LET matches == retrieve_rows_by_condition(table, conditions)
  IN  IF IsRaise(matches) THEN matches
      ELSE IF matches.tag = "false" THEN Raise("TypeError")
      ELSE Ok([i \in 1..Len(matches.val) |-> table[matches.val[i]]])

(***************************************************************************)
(* The calls the model makes                                               *)
(***************************************************************************)
MaxOps == 2

CondIdEq1 == <<"i", "d", "=", "1">>

CondAgeGe20 == <<"a", "g", "e", ">", "=", "2", "0">>

CondAgeLt10 == <<"a", "g", "e", "<", "1", "0">>

CondAgeLe10 == <<"a", "g", "e", "<", "=", "1", "0">>

CondAgeGt10 == <<"a", "g", "e", ">", "1", "0">>

CondAgeGe10 == <<"a", "g", "e", ">", "=", "1", "0">>

CondQuoted == <<"n", "a", "m", "e", "=", "\"", "a", " ", "a", "n", "d", " ", "b", "\"">>

CondBareWord == <<"a", "b", "c">>

CondColor == <<"c", "o", "l", "o", "r", "=", "1">>

CondSandy == <<"n", "a", "m", "e", "=", "S", "a", "n", "d", "y">>

CondIdOrAge == <<"i", "d", "=", "1", " ", "o", "r", " ", "a", "g", "e", ">", "=", "3", "0">>

CondIdAndName == <<"i", "d", "=", "1", " ", "a", "n", "d", " ", "n", "a", "m", "e", "!", "=", "a">>

Conditions ==
  {Star, CondIdEq1, CondAgeGe20, CondAgeLt10, CondAgeLe10, CondAgeGt10, CondAgeGe10,
   CondQuoted, CondBareWord, CondColor, CondSandy, CondIdOrAge, CondIdAndName}

\* The conditions update_rows is called with.
UpdateConditions ==
  {Star, CondIdEq1, CondAgeGe20, CondBareWord, CondSandy, CondIdOrAge, CondIdAndName}

Schemas == {<<ID, NAME, AGE>>, <<NAME, ID>>}

\* 1;Dan;20 / 2;Eve;30
FileDanEve ==
  <<"1", ";", "D", "a", "n", ";", "2", "0", "\n", "2", ";", "E", "v", "e", ";", "3", "0">>

\* #id;name;age
FileHeaderOnly == <<"#", "i", "d", ";", "n", "a", "m", "e", ";", "a", "g", "e">>

\* 1;a and b;5 / 1;a;10 / 2;Sandy
FileMixed ==
  <<"1", ";", "a", " ", "a", "n", "d", " ", "b", ";", "5", "\n",
    "1", ";", "a", ";", "1", "0", "\n",
    "2", ";", "S", "a", "n", "d", "y">>

\* Dan / Eve;2
FileNameFirst == <<"D", "a", "n", "\n", "E", "v", "e", ";", "2">>

Files(schema) ==
  IF schema = <<ID, NAME, AGE>> THEN {FileDanEve, FileHeaderOnly, FileMixed}
  ELSE {FileNameFirst}

UpdateCols == {AGE, NAME}

UpdateValues == {PyStr(<<"9", "9">>), PyInt(7)}

RowIds == {PyStr(<<"1">>), PyStr(<<"2">>), PyInt(7)}

RowCols == {NAME, ID}

RowData == {PyStr(<<"x">>), PyInt(7)}

Idle == [tag |-> "none"]

(***************************************************************************)
(* The state machine of one Database                                       *)
(***************************************************************************)
\* Database.__init__ with an existing file: the table is read from it.
Init ==
  /\ cols \in Schemas
  /\ file \in Files(cols)
  /\ ~IsRaise(decode(cols, file))
  /\ db = decode(cols, file).val
  /\ nops = 0
  /\ last = [op |-> "init"]
  /\ inp = Idle
  /\ out = Idle

read ==
  /\ nops < MaxOps
  /\ LET e == read_effect(cols, db, file)
     IN  /\ db' = e.db
         /\ last' = [op |-> "read", pre |-> db, res |-> e.res]
  /\ nops' = nops + 1
  /\ UNCHANGED <<cols, file, inp, out>>

save ==
  /\ nops < MaxOps
  /\ LET e == save_effect(cols, db, file)
     IN  /\ file' = e.file
         /\ last' = [op |-> "save", pre |-> db, res |-> e.res]
  /\ nops' = nops + 1
  /\ UNCHANGED <<cols, db, inp, out>>

\* What read_before_operations puts in front of a call.
Before(table) ==
  IF read_before_operations THEN read_effect(cols, table, file)
  ELSE [db |-> table, res |-> Ok(TRUE)]

\* What auto_save puts behind a successful update_row.
After(table, e) ==
  IF auto_save /\ e.found
  THEN LET sv == save_effect(cols, e.db, file)
       IN  [file |-> sv.file, res |-> IF IsRaise(sv.res) THEN sv.res ELSE e.res]
  ELSE [file |-> file, res |-> e.res]

update_row(row_id, col, data) ==
  /\ nops < MaxOps
  /\ LET b == Before(db)
         e == update_row_effect(b.db, row_id, col, data)
         a == After(b.db, e)
     IN  IF IsRaise(b.res)
         THEN /\ db' = b.db /\ file' = file
              /\ last' = [op |-> "update_row", pre |-> db, row_id |-> row_id,
                          col |-> col, data |-> data, res |-> b.res]
         ELSE /\ db' = e.db /\ file' = a.file
              /\ last' = [op |-> "update_row", pre |-> b.db, row_id |-> row_id,
                          col |-> col, data |-> data, res |-> a.res]
  /\ nops' = nops + 1
  /\ UNCHANGED <<cols, inp, out>>

retrieve_rows(conditions) ==
  /\ nops < MaxOps
  /\ LET b == Before(db)
     IN  /\ db' = b.db
         /\ last' = [op |-> "retrieve_rows", pre |-> b.db, conditions |-> conditions,
                     res |-> IF IsRaise(b.res) THEN b.res
                             ELSE retrieve_rows_result(b.db, conditions)]
  /\ nops' = nops + 1
  /\ UNCHANGED <<cols, file, inp, out>>

update_rows(conditions, col_name, value) ==
  /\ nops < MaxOps
  /\ LET b == Before(db)
         e == update_rows_effect(b.db, conditions, col_name, value)
     IN  IF IsRaise(b.res)
         THEN /\ db' = b.db
              /\ last' = [op |-> "update_rows", pre |-> db, conditions |-> conditions,
                          col_name |-> col_name, value |-> value, res |-> b.res]
         ELSE /\ db' = e.db
              /\ last' = [op |-> "update_rows", pre |-> b.db, conditions |-> conditions,
                          col_name |-> col_name, value |-> value, res |-> e.res]
  /\ nops' = nops + 1
  /\ UNCHANGED <<cols, file, inp, out>>

Next ==
  \/ read
  \/ save
  \/ \E row_id \in RowIds, col \in RowCols, data \in RowData : update_row(row_id, col, data)
  \/ \E conditions \in Conditions : retrieve_rows(conditions)
  \/ \E conditions \in UpdateConditions, col_name \in UpdateCols, value \in UpdateValues :
       update_rows(conditions, col_name, value)

Spec == Init /\ [][Next]_vars

(***************************************************************************)
(* CsvProcessor alone: encode followed by decode, and decode of a text      *)
(***************************************************************************)
MaxRecords == 2

MaxLines == 2

CodecSchemas == {<<>>, <<ID>>, <<ID, NAME>>}

\* The longest line has one field more than the longest schema.
MaxFields == Len(<<ID, NAME>>) + 1

CodecValues == {<<>>, <<"1">>, <<"#">>}

FirstFields == {<<>>, <<"1">>, <<"#">>}

OtherFields == {<<>>, <<"#">>}

Range(seq) == {seq[i] : i \in 1..Len(seq)}

\* The records whose keys are columns of the schema.
RecordsOver(schema) ==
  UNION {[D -> {PyStr(v) : v \in CodecValues}] : D \in SUBSET Range(schema)}

\* A line as its fields: none of them holds ';' or a line break.
LinesOfFields ==
  UNION {{l \in [1..k -> FirstFields \cup OtherFields] :
            \A i \in 2..k : l[i] \in OtherFields} : k \in 1..MaxFields}

TextOf(lines) == join(<<"\n">>, [i \in 1..Len(lines) |-> join(<<";">>, lines[i])])

DbIdle ==
  /\ cols = <<>>
  /\ db = <<>>
  /\ file = <<>>
  /\ nops = 0
  /\ last = [op |-> "init"]

CodecInit ==
  /\ DbIdle
  /\ out = Idle
  /\ \/ \E schema \in CodecSchemas, n \in 0..MaxRecords :
          \E records \in [1..n -> RecordsOver(schema)] :
            inp = [kind |-> "roundtrip", schema |-> schema, records |-> records]
     \/ \E schema \in CodecSchemas, n \in 1..MaxLines :
          \E lines \in [1..n -> LinesOfFields] :
            inp = [kind |-> "decode", schema |-> schema, lines |-> lines]

\* decode(encode(records, append_cols_comm=True))
RoundTrip ==
  /\ inp.kind = "roundtrip"
  /\ out = Idle
  /\ LET e == encode(inp.schema, inp.records, TRUE)
     IN  out' = [tag |-> "done",
                 res |-> IF IsRaise(e) THEN e ELSE decode(inp.schema, e.val)]
  /\ UNCHANGED <<cols, db, file, nops, last, inp>>

\* decode(text) of the text made of the lines
Decode ==
  /\ inp.kind = "decode"
  /\ out = Idle
  /\ out' = [tag |-> "done", res |-> decode(inp.schema, TextOf(inp.lines))]
  /\ UNCHANGED <<cols, db, file, nops, last, inp>>

CodecNext == RoundTrip \/ Decode

CodecSpec == CodecInit /\ [][CodecNext]_vars

(***************************************************************************)
(* The evaluator alone: the two reduction loops, and one condition on one   *)
(* row                                                                     *)
(***************************************************************************)
MaxComparisons == 4

A == <<"a">>

B == <<"b">>

C == <<"c">>

\* a=1 or b=2 and c=3
CondPrecedence ==
  <<"a", "=", "1", " ", "o", "r", " ", "b", "=", "2", " ", "a", "n", "d", " ",
    "c", "=", "3">>

EvalValues == {PyStr(<<"1">>), PyStr(<<"2">>), PyStr(<<"3">>)}

EvalInit ==
  /\ DbIdle
  /\ out = Idle
  /\ \/ \E n \in 1..MaxComparisons :
          \E logical_values \in [1..n -> BOOLEAN],
             logical_operators \in [1..(n - 1) -> {"and", "or"}] :
            inp = [kind |-> "reduce", logical_values |-> logical_values,
                   logical_operators |-> logical_operators]
     \/ \E row \in [{A, B, C} -> EvalValues] :
          inp = [kind |-> "row", conditions |-> CondPrecedence, row |-> row]

Reduce ==
  /\ inp.kind = "reduce"
  /\ out = Idle
  /\ out' = [tag |-> "done", res |-> reduce(inp.logical_values, inp.logical_operators)]
  /\ UNCHANGED <<cols, db, file, nops, last, inp>>

SelectRow ==
  /\ inp.kind = "row"
  /\ out = Idle
  /\ out' = [tag |-> "done", res |-> retrieve_rows_by_condition(<<inp.row>>, inp.conditions)]
  /\ UNCHANGED <<cols, db, file, nops, last, inp>>

EvalNext == Reduce \/ SelectRow

EvalSpec == EvalInit /\ [][EvalNext]_vars

(***************************************************************************)
(* Properties                                                              *)
(***************************************************************************)
Done == out # Idle

\* The maximal runs <<a, b>> of comparisons a..b joined by 'and' only.
AndRuns(operators, n) ==
  {run \in (1..n) \X (1..n) :
     /\ run[1] <= run[2]
     /\ \A i \in run[1]..(run[2] - 1) : operators[i] = "and"
     /\ run[1] = 1 \/ operators[run[1] - 1] = "or"
     /\ run[2] = n \/ operators[run[2]] = "or"}

\* The value of the expression with 'and' binding tighter than 'or'.
PrecedenceValue(values, operators) ==
  \E run \in AndRuns(operators, Len(values)) : \A i \in run[1]..run[2] : values[i]

\* C1: for N >= 1 comparison results joined by N-1 connectives the two
\* reduction loops end without an index error and yield the OR over the
\* maximal and-joined runs of the AND of each run; `a=1 or b=2 and c=3`
\* selects a row exactly when a=1 or (b=2 and c=3).
C1_AndBindsTighter ==
  Done =>
    /\ inp.kind = "reduce" =>
         out.res = Ok(PrecedenceValue(inp.logical_values, inp.logical_operators))
    /\ inp.kind = "row" =>
         out.res = Ok(IF \/ inp.row[A] = PyStr(<<"1">>)
                         \/ inp.row[B] = PyStr(<<"2">>) /\ inp.row[C] = PyStr(<<"3">>)
                      THEN <<1>> ELSE <<>>)

\* C1 witness: true or false and false was reduced to true (left to right
\* without precedence it would be false).
C1_Witness ==
  /\ Done
  /\ inp.kind = "reduce"
  /\ inp.logical_values = <<TRUE, FALSE, FALSE>>
  /\ inp.logical_operators = <<"or", "and">>
  /\ out.res = Ok(TRUE)

\* A record with every schema column: the absent ones hold the empty text.
Filled(schema, record) ==
  [c \in Range(schema) |-> IF c \in DOMAIN record THEN record[c] ELSE PyStr(<<>>)]

FirstValueIsComment(schema, record) ==
  /\ schema[1] \in DOMAIN record
  /\ StartsWith(record[schema[1]].s, <<"#">>)

\* C2 as stated: decode(encode(records, True)) equals records, each record
\* with the same present columns and values.
C2_RoundTripIdentity ==
  (Done /\ inp.kind = "roundtrip") => out.res = Ok(inp.records)

\* C2 amended: for a non-empty schema and records none of whose first-column
\* values starts with '#', decode(encode(records, True)) is the records in
\* order, each with every schema column: its value where the column was
\* present, the empty text where it was absent.
C2_RoundTripFilled ==
  (/\ Done
   /\ inp.kind = "roundtrip"
   /\ inp.schema # <<>>
   /\ \A i \in 1..Len(inp.records) : ~FirstValueIsComment(inp.schema, inp.records[i]))
  => out.res = Ok([i \in 1..Len(inp.records) |-> Filled(inp.schema, inp.records[i])])

\* C2 witness: two records over id, name, the second without name, came back
\* as two records.
C2_Witness ==
  /\ Done
  /\ inp.kind = "roundtrip"
  /\ inp.schema = <<ID, NAME>>
  /\ Len(inp.records) = 2
  /\ inp.records[1] = (ID :> PyStr(<<"1">>)) @@ (NAME :> PyStr(<<"1">>))
  /\ inp.records[2] = (ID :> PyStr(<<"1">>))
  /\ out.res = Ok(<<inp.records[1], (ID :> PyStr(<<"1">>)) @@ (NAME :> PyStr(<<>>))>>)

IsCommentLine(fields) == StartsWith(fields[1], <<"#">>)

DataLines(lines) == SelectSeq(lines, LAMBDA l : ~IsCommentLine(l))

\* The record of a line of k fields: schema[1..k], field i for schema[i].
Positional(schema, fields) ==
  [c \in {schema[i] : i \in 1..Len(fields)} |->
     PyStr(fields[CHOOSE i \in 1..Len(fields) : schema[i] = c])]

\* C7: decode maps every non-comment line positionally, a line of k <=
\* len(schema) fields giving exactly the columns schema[0..k-1]; a line with
\* more fields than the schema makes the whole call fail with an error.
C7_DecodePositional ==
  (Done /\ inp.kind = "decode") =>
    LET data == DataLines(inp.lines)
    IN  IF \E i \in 1..Len(data) : Len(data[i]) > Len(inp.schema)
        THEN IsRaise(out.res)
        ELSE out.res = Ok([i \in 1..Len(data) |-> Positional(inp.schema, data[i])])

\* C7 witness: under the schema id, name the lines `1;#` and `1` were decoded,
\* the second record without a name.
C7_Witness ==
  /\ Done
  /\ inp.kind = "decode"
  /\ inp.schema = <<ID, NAME>>
  /\ inp.lines = << <<(<<"1">>), (<<"#">>)>>, <<(<<"1">>)>> >>
  /\ out.res = Ok(<<(ID :> PyStr(<<"1">>)) @@ (NAME :> PyStr(<<"#">>)),
                    (ID :> PyStr(<<"1">>))>>)

IsSelection == last.op \in {"retrieve_rows", "update_rows"}

Compiled == compile_conditions(last.conditions)

\* A comparison as the claim C3 has it: false on a row without the column.
CompareAbsentFalse(row, condition) ==
  IF condition[1] \in DOMAIN row THEN compare(row, condition).val ELSE FALSE

MatchesAbsentFalse(row) ==
  reduce([i \in 1..Len(Compiled.val) |-> CompareAbsentFalse(row, Compiled.val[i])],
         glob_logical_operators(last.conditions)) = Ok(TRUE)

RowsWhere(table, P(_)) == SelectSeq(table, P)

\* C3: a comparison on a column that a row lacks is false and no error
\* reaches the caller of retrieve_rows / update_rows; the row is matched or
\* not by the remaining comparisons and connectives.
C3_AbsentColumnIsFalse ==
  (/\ IsSelection
   /\ last.conditions # Star
   /\ Compiled.tag = "ok"
   /\ Len(Compiled.val) = Len(glob_logical_operators(last.conditions)) + 1
   /\ \E i \in 1..Len(last.pre), k \in 1..Len(Compiled.val) :
        Compiled.val[k][1] \notin DOMAIN last.pre[i])
  => IF last.op = "retrieve_rows"
     THEN last.res = Ok(RowsWhere(last.pre, MatchesAbsentFalse))
     ELSE last.res = Ok(TRUE)

\* C4: `age<10` selects exactly what `age<=10` selects, and `age>10` what
\* `age>=10` selects (on a table whose rows all have an age).
C4_StrictAsNonStrict ==
  (/\ last.op = "retrieve_rows"
   /\ \A i \in 1..Len(last.pre) : AGE \in DOMAIN last.pre[i])
  => /\ last.conditions = CondAgeLt10 =>
          last.res = retrieve_rows_result(last.pre, CondAgeLe10)
     /\ last.conditions = CondAgeGt10 =>
          last.res = retrieve_rows_result(last.pre, CondAgeGe10)

NameIsAAndB(row) ==
  NAME \in DOMAIN row /\ row[NAME] = PyStr(<<"a", " ", "a", "n", "d", " ", "b">>)

\* C5: `name="a and b"` parses to the one comparison (name, =, a and b) and
\* no connective, and selects exactly the rows whose name is `a and b`.
C5_QuotedLiteralIsOneToken ==
  (last.op = "retrieve_rows" /\ last.conditions = CondQuoted) =>
    /\ Compiled = Ok(<< <<NAME, <<"=">>, <<"a", " ", "a", "n", "d", " ", "b">> >> >>)
    /\ glob_logical_operators(last.conditions) = <<>>
    /\ last.res = Ok(RowsWhere(last.pre, NameIsAAndB))

\* C6: a condition with a comparison that has no operator (the bare word
\* `abc`) ends retrieve_rows / update_rows in a failure on every table, and
\* update_rows changes no row.
C6_BareWordFails ==
  (IsSelection /\ last.conditions = CondBareWord) =>
    IsRaise(last.res) /\ db = last.pre

IdHits == {i \in 1..Len(last.pre) :
             ID \in DOMAIN last.pre[i] /\ last.pre[i][ID] = last.row_id}

Least(S) == CHOOSE i \in S : \A j \in S : i <= j

\* C9: update_row writes col in the first row whose id equals row_id, leaves
\* every other row as it was and returns True; without such a row it returns
\* False and leaves the table as it was.
C9_FirstMatch ==
  last.op = "update_row" =>
    IF IdHits # {}
    THEN /\ last.res = Ok(TRUE)
         /\ db = [last.pre EXCEPT ![Least(IdHits)] = SetItem(@, last.col, last.data)]
    ELSE /\ last.res = Ok(FALSE)
         /\ db = last.pre

\* C10: for a condition other than `*` that the parser accepts, the number
\* of connectives is the number of comparisons minus one.
C10_ConnectivesCount ==
  (/\ IsSelection
   /\ last.conditions # Star
   /\ Compiled.tag = "ok"
   /\ Len(Compiled.val) >= 1)
  => Len(glob_logical_operators(last.conditions)) = Len(Compiled.val) - 1

\* The text str(value) of the values the model passes to update_rows.
TextOfValue(value) == IF value = PyInt(7) THEN <<"7">> ELSE value.s

Matched ==
  LET m == retrieve_rows_by_condition(last.pre, last.conditions)
  IN  IF m.tag = "ok" THEN Range(m.val) ELSE {}

====
